---- MODULE Spec2Model ----
(***************************************************************************)
(* Model of clang/lib/Tooling/Syntax/Tokens.cpp: the TokenCollector (token *)
(* watcher and CollectPPExpansions capturer), the Builder that produces a  *)
(* TokenBuffer with per-file Mappings, and the TokenBuffer queries.        *)
(*                                                                         *)
(* The preprocessor, lexer and source manager are the environment.  The    *)
(* preprocessor is modelled as a process that lexes the translation unit   *)
(* in order and calls the two callbacks of the collector; the text it      *)
(* lexes becomes the content of the files that tokenize() reads later.     *)
(* Indices (NextSpelled, BeginExpanded, ...) are 0-based as in the code;   *)
(* sequences are accessed through At().                                    *)
(***************************************************************************)
EXTENDS Integers, Sequences, FiniteSets, TLC

\* ---- bounds of the model ----
MaxFiles == 2      \* main file plus included files
MaxSpelled == 4    \* spelled tokens lexed over all files
MaxExpanded == 3   \* expanded tokens delivered before end-of-file
MaxCallLen == 3    \* spelled tokens of one macro call (name and arguments)
MaxLate == 1       \* preprocessor callbacks delivered after consume()

VARIABLES
  fileToks,            \* SourceManager: raw tokens of each file buffer
  incAt,               \* SourceManager: offset in the main file of each #include
  nfiles,              \* SourceManager: number of FileIDs created
  cur,                 \* Preprocessor: file being lexed
  ppMode,              \* Preprocessor: "top", "macro" (inside an expansion), "eof"
  curExp,              \* Preprocessor: expansion location of the running expansion
  curEnd,              \* Preprocessor: last file location of the running macro call
  nextId,              \* SourceManager: next macro location id
  watcher,             \* Preprocessor: is the token watcher registered
  ev,                  \* the callback delivered by the last step, with its arguments
  nlate,               \* number of callbacks delivered after consume()
  Expanded,            \* TokenCollector::Expanded
  Expansions,          \* TokenCollector::Expansions (raw encoding -> end location)
  Collector,           \* CollectPPExpansions::Collector is non-null
  LastExpansionEnd,    \* CollectPPExpansions::LastExpansionEnd
  pc,                  \* position in TokenCollector::consume / Builder::build
  Result,              \* Builder::Result (the TokenBuffer)
  NextExpanded,        \* Builder::NextExpanded
  NextSpelled,         \* Builder::NextSpelled
  CollectedExpansions, \* Builder::CollectedExpansions
  drainTodo            \* files the final loop of build() has not drained yet

ppVars == <<fileToks, incAt, nfiles, cur, ppMode, curExp, curEnd, nextId>>
colVars == <<Expanded, Expansions, LastExpansionEnd>>
bldVars == <<Result, NextExpanded, NextSpelled, CollectedExpansions, drainTodo>>
vars == <<fileToks, incAt, nfiles, cur, ppMode, curExp, curEnd, nextId, watcher,
          ev, nlate, Expanded, Expansions, Collector, LastExpansionEnd, pc,
          Result, NextExpanded, NextSpelled, CollectedExpansions, drainTodo>>

\* ---- source locations (SourceManager) ----
MainFile == 1

\* A location is [file, off, id]: id = 0 for a file location; id > 0 for a
\* macro location whose expansion location is [file, off, 0].
FileLoc(f, o) == [file |-> f, off |-> o, id |-> 0]
MacroLoc(x, i) == [file |-> x.file, off |-> x.off, id |-> i]
InvalidLoc == [file |-> 0, off |-> 0, id |-> 0]

isValid(l) == l # InvalidLoc
isFileID(l) == l.id = 0
getExpansionLoc(l) == FileLoc(l.file, l.off)
getFileID(l) == l.file

\* Raw encoding of a location: FileIDs are allocated in increasing address
\* ranges, so a later file has larger encodings than an earlier one, and
\* macro locations are encoded above every file location.
getRawEncoding(l) ==
  IF isValid(l) THEN (l.id * MaxFiles + l.file - 1) * (MaxSpelled + 2) + l.off ELSE 0
LocLess(a, b) == getRawEncoding(a) < getRawEncoding(b)
LocLessEq(a, b) == getRawEncoding(a) <= getRawEncoding(b)

\* Position of a location in the translation unit: an included file lies
\* between the #include directive and the next token of the main file, and
\* the locations of an expansion lie right after its expansion location.
TUKey(l) ==
  IF l.file = MainFile THEN <<l.off, 0, IF l.id = 0 THEN 0 ELSE 1>>
  ELSE <<incAt[l.file], l.off, IF l.id = 0 THEN 0 ELSE 1>>

isBeforeInTranslationUnit(a, b) ==
  \/ TUKey(a)[1] < TUKey(b)[1]
  \/ TUKey(a)[1] = TUKey(b)[1] /\ TUKey(a)[2] < TUKey(b)[2]
  \/ TUKey(a)[1] = TUKey(b)[1] /\ TUKey(a)[2] = TUKey(b)[2] /\ TUKey(a)[3] < TUKey(b)[3]

getLocForEndOfFile(f) == FileLoc(f, Len(fileToks[f]) + 1)

\* ---- tokens ----
Tok(l, k) == [loc |-> l, kind |-> k]
At(s, i) == s[i + 1]

RECURSIVE SpelledUpTo(_)
SpelledUpTo(f) == IF f = 0 THEN 0 ELSE Len(fileToks[f]) + SpelledUpTo(f - 1)
TotalSpelled == SpelledUpTo(MaxFiles)
NextFileLoc == FileLoc(cur, Len(fileToks[cur]) + 1)

NoEvent(name) == [cb |-> name, begin |-> InvalidLoc, end |-> InvalidLoc, annot |-> FALSE]
TokenEvent(t, a) == [cb |-> "Token", begin |-> t.loc, end |-> t.loc, annot |-> a]
MacroEvent(b, e) == [cb |-> "MacroExpands", begin |-> b, end |-> e, annot |-> FALSE]

\* ---- TokenCollector: the token watcher ----
\* The lambda registered by the constructor; called only while registered.
TokenWatcher(T, annotation) ==
  IF annotation THEN Expanded ELSE Append(Expanded, T)

WatchToken(T, annotation) ==
  /\ Expanded' = IF watcher THEN TokenWatcher(T, annotation) ELSE Expanded
  /\ ev' = TokenEvent(T, annotation)

\* ---- CollectPPExpansions::MacroExpands ----
\* Variant: no event counts as part of the expansion recorded last.
InsideLastExpansionNever(e) == FALSE

\* LastExpansionEnd.isValid() &&
\* !SM.isBeforeInTranslationUnit(LastExpansionEnd, Range.getEnd())
InsideLastExpansion(e) ==
  isValid(LastExpansionEnd) /\ ~isBeforeInTranslationUnit(LastExpansionEnd, e)

\* Variant: the check that the end is a file location is missing.
MacroExpandsRecordsAnyEnd(b, e) ==
  /\ Collector
  /\ ~InsideLastExpansion(e)

MacroExpandsRecords(b, e) ==
  /\ Collector
  /\ isFileID(e)
  /\ ~InsideLastExpansion(e)

\* Variant: the key is the range begin itself, also when it is a macro
\* location.
MacroExpandsKeyAsGiven(b) == b

MacroExpandsKey(b) == IF ~isFileID(b) THEN getExpansionLoc(b) ELSE b

SetExpansion(tbl, key, e) ==
  [k \in DOMAIN tbl \cup {key} |-> IF k = key THEN e ELSE tbl[k]]

\* Variant: the entry is stored under the end of the range.
MacroExpandsKeyedByEnd(b, e) ==
  /\ IF MacroExpandsRecords(b, e)
       THEN /\ Expansions' = SetExpansion(Expansions, getRawEncoding(e), e)
            /\ LastExpansionEnd' = e
       ELSE UNCHANGED <<Expansions, LastExpansionEnd>>
  /\ ev' = MacroEvent(b, e)

MacroExpands(b, e) ==
  /\ IF MacroExpandsRecords(b, e)
       THEN /\ Expansions' = SetExpansion(Expansions, getRawEncoding(MacroExpandsKey(b)), e)
            /\ LastExpansionEnd' = e
       ELSE UNCHANGED <<Expansions, LastExpansionEnd>>
  /\ ev' = MacroEvent(b, e)

\* DenseMap::lookup: the default (invalid) location when the key is absent.
Lookup(tbl, k) == IF k \in DOMAIN tbl THEN tbl[k] ELSE InvalidLoc

\* ---- the preprocessor (environment) ----
Lexing == pc = "collect" /\ ppMode # "eof"

AppendSpelled(n, k) ==
  fileToks' = [fileToks EXCEPT ![cur] =
     @ \o [i \in 1..n |-> Tok(FileLoc(cur, Len(fileToks[cur]) + i), k)]]

\* A token of a file that reaches the parser unchanged.
PPFileToken ==
  /\ Lexing
  /\ TotalSpelled < MaxSpelled
  /\ Len(Expanded) < MaxExpanded
  /\ AppendSpelled(1, "identifier")
  /\ WatchToken(Tok(NextFileLoc, "identifier"), FALSE)
  /\ curExp' = InvalidLoc
  /\ curEnd' = InvalidLoc
  /\ ppMode' = "top"
  /\ UNCHANGED <<incAt, nfiles, cur, nextId, watcher, nlate,
                 Expansions, Collector, LastExpansionEnd, pc>>
  /\ UNCHANGED bldVars

\* A token of a directive or of a skipped region: lexed, never delivered.
PPSkipToken ==
  /\ Lexing
  /\ TotalSpelled < MaxSpelled
  /\ AppendSpelled(1, "punct")
  /\ curExp' = InvalidLoc
  /\ curEnd' = InvalidLoc
  /\ ppMode' = "top"
  /\ ev' = NoEvent("Skip")
  /\ UNCHANGED <<incAt, nfiles, cur, nextId, watcher, nlate,
                 Collector, pc>>
  /\ UNCHANGED colVars
  /\ UNCHANGED bldVars

\* A macro call spelled in the file being lexed: the name and its arguments
\* are n spelled tokens; MacroExpands fires with the file range of the call.
PPMacroCall ==
  /\ Lexing
  /\ \E n \in 1..MaxCallLen :
       /\ TotalSpelled + n <= MaxSpelled
       /\ AppendSpelled(n, "identifier")
       /\ MacroExpands(NextFileLoc, FileLoc(cur, Len(fileToks[cur]) + n))
       /\ curExp' = NextFileLoc
       /\ curEnd' = FileLoc(cur, Len(fileToks[cur]) + n)
  /\ ppMode' = "macro"
  /\ UNCHANGED <<incAt, nfiles, cur, nextId, watcher, nlate, Expanded, Collector, pc>>
  /\ UNCHANGED bldVars

\* The ranges of macro expansions that happen inside the running expansion
\* and close no later than it: a macro in an argument (file begin and end
\* inside the call), a macro in the body (macro begin and end), and a macro
\* named in the body whose arguments are an argument of the call.
NestedRanges ==
  LET inside == {FileLoc(curExp.file, o) : o \in (curExp.off + 1)..(curEnd.off - 1)}
      body == MacroLoc(curExp, nextId)
  IN  {<<b, e>> \in inside \X inside : b.off <= e.off}
        \cup {<<body, body>>}
        \cup {<<body, e>> : e \in inside}

PPNestedExpansion ==
  /\ Lexing
  /\ ppMode = "macro"
  /\ \E r \in NestedRanges : MacroExpands(r[1], r[2])
  /\ UNCHANGED <<watcher, nlate, Expanded, Collector, pc>>
  /\ UNCHANGED ppVars
  /\ UNCHANGED bldVars

\* A function-like macro named in the body of the running expansion whose
\* arguments are the next n tokens of the file ('#define A 1 + B', 'A(2)').
PPMergedExpansion ==
  /\ Lexing
  /\ ppMode = "macro"
  /\ curEnd.file = cur
  /\ \E n \in 2..MaxCallLen :
       /\ TotalSpelled + n <= MaxSpelled
       /\ AppendSpelled(n, "arg")
       /\ MacroExpands(MacroLoc(curExp, nextId), FileLoc(cur, Len(fileToks[cur]) + n))
       /\ curEnd' = FileLoc(cur, Len(fileToks[cur]) + n)
  /\ UNCHANGED <<incAt, nfiles, cur, ppMode, curExp, nextId, watcher, nlate,
                 Expanded, Collector, pc>>
  /\ UNCHANGED bldVars

\* A token produced by the running expansion.
PPMacroToken ==
  /\ Lexing
  /\ ppMode = "macro"
  /\ Len(Expanded) < MaxExpanded
  /\ WatchToken(Tok(MacroLoc(curExp, nextId), "identifier"), FALSE)
  /\ nextId' = nextId + 1
  /\ UNCHANGED <<fileToks, incAt, nfiles, cur, ppMode, curExp, curEnd, watcher,
                 nlate, Expansions, Collector, LastExpansionEnd, pc>>
  /\ UNCHANGED bldVars

\* An annotation token (a pragma marker): the watcher ignores it.
PPAnnotation ==
  /\ Lexing
  /\ ppMode = "top"
  /\ WatchToken(Tok(NextFileLoc, "annot"), TRUE)
  /\ UNCHANGED <<watcher, nlate, Expansions, Collector, LastExpansionEnd, pc>>
  /\ UNCHANGED ppVars
  /\ UNCHANGED bldVars

\* '#include': the directive is one more spelled token of the main file and
\* the preprocessor enters a new file.
PPEnterInclude ==
  /\ Lexing
  /\ cur = MainFile
  /\ nfiles < MaxFiles
  /\ TotalSpelled < MaxSpelled
  /\ AppendSpelled(1, "punct")
  /\ incAt' = [incAt EXCEPT ![nfiles + 1] = Len(fileToks[MainFile]) + 1]
  /\ nfiles' = nfiles + 1
  /\ cur' = nfiles + 1
  /\ curExp' = InvalidLoc
  /\ curEnd' = InvalidLoc
  /\ ppMode' = "top"
  /\ ev' = NoEvent("EnterInclude")
  /\ UNCHANGED <<nextId, watcher, nlate, Collector, pc>>
  /\ UNCHANGED colVars
  /\ UNCHANGED bldVars

\* End of an included file: back to the main file.
PPExitInclude ==
  /\ Lexing
  /\ cur # MainFile
  /\ cur' = MainFile
  /\ curExp' = InvalidLoc
  /\ curEnd' = InvalidLoc
  /\ ppMode' = "top"
  /\ ev' = NoEvent("ExitInclude")
  /\ UNCHANGED <<fileToks, incAt, nfiles, nextId, watcher, nlate,
                 Collector, pc>>
  /\ UNCHANGED colVars
  /\ UNCHANGED bldVars

\* End of the main file: the end-of-file token is delivered.
PPEof ==
  /\ Lexing
  /\ cur = MainFile
  /\ WatchToken(Tok(getLocForEndOfFile(MainFile), "eof"), FALSE)
  /\ curExp' = InvalidLoc
  /\ curEnd' = InvalidLoc
  /\ ppMode' = "eof"
  /\ UNCHANGED <<fileToks, incAt, nfiles, cur, nextId, watcher,
                 nlate, Expansions, Collector, LastExpansionEnd, pc>>
  /\ UNCHANGED bldVars

\* ---- syntax::tokenize ----
\* The tokens LexFromRawLexer hands out; the last one is the token of the
\* call that reports the end of the buffer.  That is the last token of the
\* file when the buffer ends right after it (an identifier, which no blank
\* follows) and an end-of-file token otherwise.
RawLex(FID) ==
  IF fileToks[FID] # <<>> /\ fileToks[FID][Len(fileToks[FID])].kind = "identifier"
    THEN fileToks[FID]
    ELSE fileToks[FID] \o <<Tok(getLocForEndOfFile(FID), "eof")>>

\* Variant: the terminating token is never stored.
tokenizeDropLast(FID) ==
  LET all == RawLex(FID)
  IN  SubSeq(all, 1, Len(all) - 1)

tokenize(FID) ==
  LET all == RawLex(FID)
      T == all[Len(all)]
      Tokens == SubSeq(all, 1, Len(all) - 1)
  IN  IF T.kind # "eof" THEN Append(Tokens, T) ELSE Tokens

\* ---- TokenCollector::Builder ----
NewMapping(bs, es, be, ee) ==
  [BeginSpelled |-> bs, EndSpelled |-> es, BeginExpanded |-> be, EndExpanded |-> ee]

EmptyFile == [SpelledTokens |-> <<>>, BeginExpanded |-> 0, EndExpanded |-> 0,
              Mappings |-> <<>>]

SetFile(Files, FID, File) ==
  [f \in DOMAIN Files \cup {FID} |-> IF f = FID THEN File ELSE Files[f]]

\* Variant: the eof token counts like any other token.
EndExpandedAtNext(T, I) == I + 1

\* File.EndExpanded = Tok.kind() == tok::eof ? I : I + 1;
EndExpandedAt(T, I) == IF T.kind = "eof" THEN I ELSE I + 1

RECURSIVE buildSpelledTokensFrom(_, _, _)
buildSpelledTokensFrom(I, ExpandedTokens, Files) ==
  IF I >= Len(ExpandedTokens) THEN Files
  ELSE LET T == At(ExpandedTokens, I)
           FID == getFileID(getExpansionLoc(T.loc))
           seen == FID \in DOMAIN Files
           File0 == IF seen THEN Files[FID] ELSE EmptyFile
           File1 == [File0 EXCEPT !.EndExpanded = EndExpandedAt(T, I)]
           File2 == IF seen THEN File1
                    ELSE [File1 EXCEPT !.BeginExpanded = I,
                                       !.SpelledTokens = tokenize(FID)]
       IN  buildSpelledTokensFrom(I + 1, ExpandedTokens, SetFile(Files, FID, File2))

buildSpelledTokens(ExpandedTokens) == buildSpelledTokensFrom(0, ExpandedTokens, <<>>)

\* Variant: FlushMapping without the test for an empty spelled side.
FlushMappingAlways(Mappings, BeginSpelled, NS, AtExpanded) ==
  Append(Mappings, NewMapping(BeginSpelled, NS, AtExpanded, AtExpanded))

\* FlushMapping of discard(): emits [BeginSpelled, NextSpelled) unless empty.
FlushMapping(Mappings, BeginSpelled, NS, AtExpanded) ==
  IF BeginSpelled # NS
    THEN Append(Mappings, NewMapping(BeginSpelled, NS, AtExpanded, AtExpanded))
    ELSE Mappings

\* while (NextSpelled < size && SpelledTokens[NextSpelled].location() <= End)
RECURSIVE SkipUpTo(_, _, _)
\* Variant: only the first spelled token of the call is consumed.
SkipUpToFirst(SpelledTokens, NS, End) ==
  IF NS < Len(SpelledTokens) THEN NS + 1 ELSE NS

SkipUpTo(SpelledTokens, NS, End) ==
  IF NS < Len(SpelledTokens) /\ LocLessEq(At(SpelledTokens, NS).loc, End)
    THEN SkipUpTo(SpelledTokens, NS + 1, End)
    ELSE NS

\* Variant: FlushMapping does not restart the mapping at NextSpelled.
RECURSIVE discardLoopNoRestart(_, _, _, _, _, _)
discardLoopNoRestart(SpelledTokens, NS, BeginSpelled, Mappings, Target, AtExpanded) ==
  IF NS < Len(SpelledTokens) /\ LocLess(At(SpelledTokens, NS).loc, Target)
    THEN LET KnownEnd == Lookup(CollectedExpansions,
                                getRawEncoding(At(SpelledTokens, NS).loc))
         IN  IF isValid(KnownEnd)
               THEN LET M1 == FlushMapping(Mappings, BeginSpelled, NS, AtExpanded)
                        NS2 == SkipUpTo(SpelledTokens, NS, KnownEnd)
                        M2 == FlushMapping(M1, NS, NS2, AtExpanded)
                    IN  discardLoopNoRestart(SpelledTokens, NS2, BeginSpelled, M2,
                                             Target, AtExpanded)
               ELSE discardLoopNoRestart(SpelledTokens, NS + 1, BeginSpelled,
                                         Mappings, Target, AtExpanded)
    ELSE [NS |-> NS, Mappings |-> FlushMapping(Mappings, BeginSpelled, NS, AtExpanded)]

\* The loop of discard() and its final FlushMapping.
RECURSIVE discardLoop(_, _, _, _, _, _)
discardLoop(SpelledTokens, NS, BeginSpelled, Mappings, Target, AtExpanded) ==
  IF NS < Len(SpelledTokens) /\ LocLess(At(SpelledTokens, NS).loc, Target)
    THEN LET KnownEnd == Lookup(CollectedExpansions,
                                getRawEncoding(At(SpelledTokens, NS).loc))
         IN  IF isValid(KnownEnd)
               THEN LET M1 == FlushMapping(Mappings, BeginSpelled, NS, AtExpanded)
                        NS2 == SkipUpTo(SpelledTokens, NS, KnownEnd)
                        M2 == FlushMapping(M1, NS, NS2, AtExpanded)
                    IN  discardLoop(SpelledTokens, NS2, NS2, M2, Target, AtExpanded)
               ELSE discardLoop(SpelledTokens, NS + 1, BeginSpelled, Mappings,
                                Target, AtExpanded)
    ELSE [NS |-> NS, Mappings |-> FlushMapping(Mappings, BeginSpelled, NS, AtExpanded)]

\* discard(Drain): Drain = 0 stands for llvm::None.
discardTarget(Drain) ==
  IF Drain # 0 THEN getLocForEndOfFile(Drain)
  ELSE getExpansionLoc(At(Result.ExpandedTokens, NextExpanded).loc)

\* Variant: the empty mappings are positioned at the file's BeginExpanded.
discardAtFileBegin(Drain) ==
  LET Target == discardTarget(Drain)
      File == getFileID(Target)
      AtExpanded == Result.Files[File].BeginExpanded
      r == discardLoop(Result.Files[File].SpelledTokens, NextSpelled[File],
                       NextSpelled[File], Result.Files[File].Mappings, Target,
                       AtExpanded)
  IN  [File |-> File, NS |-> r.NS, Mappings |-> r.Mappings]

discard(Drain) ==
  LET Target == discardTarget(Drain)
      File == getFileID(Target)
      AtExpanded == IF Drain # 0 THEN Result.Files[Drain].EndExpanded ELSE NextExpanded
      r == discardLoop(Result.Files[File].SpelledTokens, NextSpelled[File],
                       NextSpelled[File], Result.Files[File].Mappings, Target,
                       AtExpanded)
  IN  [File |-> File, NS |-> r.NS, Mappings |-> r.Mappings]

\* Variant: the run continues while the token kinds match.
RECURSIVE fileRunByKind(_, _, _)
fileRunByKind(SpelledTokens, NS, NE) ==
  IF /\ NS < Len(SpelledTokens)
     /\ NE < Len(Result.ExpandedTokens)
     /\ At(SpelledTokens, NS).kind = At(Result.ExpandedTokens, NE).kind
    THEN fileRunByKind(SpelledTokens, NS + 1, NE + 1)
    ELSE [NS |-> NS, NE |-> NE]

\* The file-token run of advance().
RECURSIVE fileRun(_, _, _)
fileRun(SpelledTokens, NS, NE) ==
  IF /\ NS < Len(SpelledTokens)
     /\ NE < Len(Result.ExpandedTokens)
     /\ At(SpelledTokens, NS).loc = At(Result.ExpandedTokens, NE).loc
    THEN fileRun(SpelledTokens, NS + 1, NE + 1)
    ELSE [NS |-> NS, NE |-> NE]

\* Variant: one expanded token per Mapping.
expansionRunOne(NE, Expansion) == NE + 1

\* while (NextExpanded < size && getExpansionLoc(...) == Expansion)
RECURSIVE expansionRun(_, _)
expansionRun(NE, Expansion) ==
  IF /\ NE < Len(Result.ExpandedTokens)
     /\ getExpansionLoc(At(Result.ExpandedTokens, NE).loc) = Expansion
    THEN expansionRun(NE + 1, Expansion)
    ELSE NE

\* Variant: Mapping.BeginSpelled keeps its default value.
advanceNoBeginSpelled ==
  LET T == At(Result.ExpandedTokens, NextExpanded)
      Expansion == getExpansionLoc(T.loc)
      File == getFileID(Expansion)
      SpelledTokens == Result.Files[File].SpelledTokens
      NS == NextSpelled[File]
  IN  IF isFileID(T.loc)
        THEN LET r == fileRun(SpelledTokens, NS, NextExpanded)
             IN  [File |-> File, NS |-> r.NS, NE |-> r.NE,
                  Mappings |-> Result.Files[File].Mappings, asserted |-> FALSE]
        ELSE LET End == Lookup(CollectedExpansions, getRawEncoding(Expansion))
                 NS2 == SkipUpTo(SpelledTokens, NS, End)
                 NE2 == expansionRun(NextExpanded, Expansion)
             IN  [File |-> File, NS |-> NS2, NE |-> NE2,
                  Mappings |-> Append(Result.Files[File].Mappings,
                                      NewMapping(0, NS2, NextExpanded, NE2)),
                  asserted |-> ~isValid(End)]

\* advance()
advance ==
  LET T == At(Result.ExpandedTokens, NextExpanded)
      Expansion == getExpansionLoc(T.loc)
      File == getFileID(Expansion)
      SpelledTokens == Result.Files[File].SpelledTokens
      NS == NextSpelled[File]
  IN  IF isFileID(T.loc)
        THEN LET r == fileRun(SpelledTokens, NS, NextExpanded)
             IN  [File |-> File, NS |-> r.NS, NE |-> r.NE,
                  Mappings |-> Result.Files[File].Mappings, asserted |-> FALSE]
        ELSE LET End == Lookup(CollectedExpansions, getRawEncoding(Expansion))
                 NS2 == SkipUpTo(SpelledTokens, NS, End)
                 NE2 == expansionRun(NextExpanded, Expansion)
             IN  [File |-> File, NS |-> NS2, NE |-> NE2,
                  Mappings |-> Append(Result.Files[File].Mappings,
                                      NewMapping(NS, NS2, NextExpanded, NE2)),
                  asserted |-> ~isValid(End)]

\* ---- TokenCollector::consume and the steps of Builder::build ----
\* PP.setTokenWatcher(nullptr)
setTokenWatcherNull == watcher' = FALSE

\* Variant: disable() leaves the back-pointer set.
disableKeepsPointer == Collector' = Collector

\* CollectPPExpansions::disable()
disable == Collector' = FALSE

\* Variant: build() returns after the main loop, without draining the files.
LoopOrReturn(NE, ExpandedTokens) ==
  IF NE < Len(ExpandedTokens) - 1 THEN "discard" ELSE "done"

LoopOrDrain(NE, ExpandedTokens) ==
  IF NE < Len(ExpandedTokens) - 1 THEN "discard" ELSE "drain"

\* consume() up to the main loop of build(): the watcher is unregistered,
\* the capturer disabled, the buffers moved into the Builder, and
\* buildSpelledTokens() has run.  build() requires a final eof token.
Consume ==
  /\ pc = "collect"
  /\ ppMode = "eof"
  /\ setTokenWatcherNull
  /\ disable
  /\ Result' = [ExpandedTokens |-> Expanded, Files |-> buildSpelledTokens(Expanded)]
  /\ CollectedExpansions' = Expansions
  /\ Expanded' = <<>>
  /\ Expansions' = <<>>
  /\ NextExpanded' = 0
  /\ NextSpelled' = [f \in DOMAIN buildSpelledTokens(Expanded) |-> 0]
  /\ drainTodo' = DOMAIN buildSpelledTokens(Expanded)
  /\ pc' = LoopOrDrain(0, Expanded)
  /\ ev' = NoEvent("consume")
  /\ UNCHANGED <<nlate, LastExpansionEnd>>
  /\ UNCHANGED ppVars

SetMappings(File, Mappings) ==
  [Result EXCEPT !.Files[File].Mappings = Mappings]

BuildDiscard ==
  /\ pc = "discard"
  /\ LET r == discard(0)
     IN  /\ Result' = SetMappings(r.File, r.Mappings)
         /\ NextSpelled' = [NextSpelled EXCEPT ![r.File] = r.NS]
  /\ pc' = "advance"
  /\ ev' = NoEvent("discard")
  /\ UNCHANGED <<watcher, nlate, Collector, NextExpanded, CollectedExpansions, drainTodo>>
  /\ UNCHANGED ppVars
  /\ UNCHANGED colVars

\* assert(Cond): a build with assertions stops when Cond fails; a build
\* without them (NDEBUG) does not evaluate it and goes on.
assertOutcomes(failed) == IF failed THEN {TRUE, FALSE} ELSE {FALSE}

\* Variant: the loop of build() does not check that advance() progressed.
advanceFailedUnchecked(OldPosition, NewPosition) == FALSE

\* if (NextExpanded == OldPosition) diagnoseAdvanceFailure();
advanceFailed(OldPosition, NewPosition) == NewPosition = OldPosition

\* advance() and the check that follows it in the loop of build().  A failed
\* assert stops a build with assertions and is skipped without them;
\* diagnoseAdvanceFailure() ends the build.
BuildAdvance ==
  /\ pc = "advance"
  /\ LET r == advance
     IN  \E aborts \in assertOutcomes(r.asserted) :
           IF aborts
             THEN /\ pc' = "fatal"
                  /\ UNCHANGED <<Result, NextSpelled, NextExpanded>>
             ELSE /\ Result' = SetMappings(r.File, r.Mappings)
                  /\ NextSpelled' = [NextSpelled EXCEPT ![r.File] = r.NS]
                  /\ NextExpanded' = r.NE
                  /\ pc' = IF advanceFailed(NextExpanded, r.NE) THEN "fatal"
                           ELSE LoopOrDrain(r.NE, Result.ExpandedTokens)
  /\ ev' = NoEvent("advance")
  /\ UNCHANGED <<watcher, nlate, Collector, CollectedExpansions, drainTodo>>
  /\ UNCHANGED ppVars
  /\ UNCHANGED colVars

\* for (const auto &File : Result.Files) discard(File.first); return Result;
BuildDrain ==
  /\ pc = "drain"
  /\ \E Drain \in drainTodo :
       LET r == discard(Drain)
       IN  /\ Result' = SetMappings(r.File, r.Mappings)
           /\ NextSpelled' = [NextSpelled EXCEPT ![r.File] = r.NS]
           /\ drainTodo' = drainTodo \ {Drain}
           /\ pc' = IF drainTodo = {Drain} THEN "done" ELSE "drain"
  /\ ev' = NoEvent("drain")
  /\ UNCHANGED <<watcher, nlate, Collector, NextExpanded, CollectedExpansions>>
  /\ UNCHANGED ppVars
  /\ UNCHANGED colVars

\* ---- the preprocessor after consume() ----
LateRanges ==
  {<<FileLoc(MainFile, Len(fileToks[MainFile]) + 2),
     FileLoc(MainFile, Len(fileToks[MainFile]) + 2)>>,
   <<MacroLoc(FileLoc(MainFile, 1), nextId), FileLoc(MainFile, Len(fileToks[MainFile]) + 2)>>}

PPLateMacroExpands ==
  /\ pc = "done"
  /\ nlate < MaxLate
  /\ \E r \in LateRanges : MacroExpands(r[1], r[2])
  /\ nlate' = nlate + 1
  /\ UNCHANGED <<watcher, Expanded, Collector, pc>>
  /\ UNCHANGED ppVars
  /\ UNCHANGED bldVars

PPLateToken ==
  /\ pc = "done"
  /\ nlate < MaxLate
  /\ WatchToken(Tok(FileLoc(MainFile, Len(fileToks[MainFile]) + 2), "identifier"), FALSE)
  /\ nlate' = nlate + 1
  /\ UNCHANGED <<watcher, Expansions, Collector, LastExpansionEnd, pc>>
  /\ UNCHANGED ppVars
  /\ UNCHANGED bldVars

\* ---- TokenBuffer queries ----
\* std::partition_point over the flags of a predicate: the binary search of
\* the library, which returns the number of leading TRUE flags when the
\* flags are partitioned.
RECURSIVE partitionSearch(_, _, _)
partitionSearch(flags, first, len) ==
  IF len = 0 THEN first
  ELSE LET half == len \div 2
           mid == first + half
       IN  IF flags[mid + 1]
             THEN partitionSearch(flags, mid + 1, len - half - 1)
             ELSE partitionSearch(flags, first, half)

partition_point(flags) == partitionSearch(flags, 0, Len(flags))

FileOfExpanded(i) == getFileID(getExpansionLoc(At(Result.ExpandedTokens, i).loc))

\* Variant: the partition predicate is BeginExpanded < ExpandedIndex.
spelledForExpandedTokenStrict(ExpandedIndex) ==
  LET FID == FileOfExpanded(ExpandedIndex)
      File == Result.Files[FID]
      It == partition_point([k \in 1..Len(File.Mappings) |->
                               File.Mappings[k].BeginExpanded < ExpandedIndex])
  IN  IF It = 0
        THEN [file |-> FID, idx |-> ExpandedIndex - File.BeginExpanded, map |-> 0]
        ELSE IF ExpandedIndex < File.Mappings[It].EndExpanded
          THEN [file |-> FID, idx |-> File.Mappings[It].BeginSpelled, map |-> It]
          ELSE [file |-> FID,
                idx |-> File.Mappings[It].EndSpelled
                          + (ExpandedIndex - File.Mappings[It].EndExpanded),
                map |-> 0]

\* spelledForExpandedToken(&ExpandedTokens[ExpandedIndex]): the file, the
\* index of the returned spelled token in that file's SpelledTokens, and the
\* position (from 1) of the returned Mapping in the file's Mappings, 0 for
\* nullptr.
spelledForExpandedToken(ExpandedIndex) ==
  LET FID == FileOfExpanded(ExpandedIndex)
      File == Result.Files[FID]
      It == partition_point([k \in 1..Len(File.Mappings) |->
                               File.Mappings[k].BeginExpanded <= ExpandedIndex])
  IN  IF It = 0
        THEN [file |-> FID, idx |-> ExpandedIndex - File.BeginExpanded, map |-> 0]
        ELSE IF ExpandedIndex < File.Mappings[It].EndExpanded
          THEN [file |-> FID, idx |-> File.Mappings[It].BeginSpelled, map |-> It]
          ELSE [file |-> FID,
                idx |-> File.Mappings[It].EndSpelled
                          + (ExpandedIndex - File.Mappings[It].EndExpanded),
                map |-> 0]

\* Does the pointer returned by spelledForExpandedToken point at a token.
PointsAtSpelled(r) == r.idx >= 0 /\ r.idx < Len(Result.Files[r.file].SpelledTokens)

NoneRange == [kind |-> "none", file |-> 0, begin |-> 0, end |-> 0]
SomeRange(f, b, e) == [kind |-> "some", file |-> f, begin |-> b, end |-> e]
\* The result after reading through a pointer that is out of bounds.
UndefinedRange == [kind |-> "undefined", file |-> 0, begin |-> 0, end |-> 0]

\* Variant: the end of the range ignores the Mapping of the last token.
spelledForExpandedLastToken(Begin, End) ==
  IF Begin = End THEN NoneRange
  ELSE LET First == spelledForExpandedToken(Begin)
           Last == spelledForExpandedToken(End - 1)
       IN  IF ~PointsAtSpelled(First) \/ ~PointsAtSpelled(Last) THEN UndefinedRange
           ELSE LET File == Result.Files[First.file]
                    FID == getFileID(At(File.SpelledTokens, First.idx).loc)
                    LastFID == getFileID(At(Result.Files[Last.file].SpelledTokens,
                                            Last.idx).loc)
                IN  IF FID # LastFID THEN NoneRange
                    ELSE IF First.map # 0
                            /\ File.Mappings[First.map].BeginExpanded < Begin
                      THEN NoneRange
                    ELSE IF Last.map # 0 /\ End < File.Mappings[Last.map].EndExpanded
                      THEN NoneRange
                    ELSE SomeRange(FID,
                           IF First.map # 0 THEN File.Mappings[First.map].BeginSpelled
                                            ELSE First.idx,
                           Last.idx + 1)

\* spelledForExpanded(ExpandedTokens[Begin, End)): the spelled range as
\* indices into the SpelledTokens of one file.
spelledForExpanded(Begin, End) ==
  IF Begin = End THEN NoneRange
  ELSE LET First == spelledForExpandedToken(Begin)
           Last == spelledForExpandedToken(End - 1)
       IN  IF ~PointsAtSpelled(First) \/ ~PointsAtSpelled(Last) THEN UndefinedRange
           ELSE LET File == Result.Files[First.file]
                    FID == getFileID(At(File.SpelledTokens, First.idx).loc)
                    LastFID == getFileID(At(Result.Files[Last.file].SpelledTokens,
                                            Last.idx).loc)
                IN  IF FID # LastFID THEN NoneRange
                    ELSE IF First.map # 0
                            /\ File.Mappings[First.map].BeginExpanded < Begin
                      THEN NoneRange
                    ELSE IF Last.map # 0 /\ End < File.Mappings[Last.map].EndExpanded
                      THEN NoneRange
                    ELSE SomeRange(FID,
                           IF First.map # 0 THEN File.Mappings[First.map].BeginSpelled
                                            ELSE First.idx,
                           IF Last.map # 0 THEN File.Mappings[Last.map].EndSpelled
                                           ELSE Last.idx + 1)

NoExpansion == [kind |-> "none", Spelled |-> <<0, 0>>, Expanded |-> <<0, 0>>]
ExpansionOf(M) == [kind |-> "some", Spelled |-> <<M.BeginSpelled, M.EndSpelled>>,
                   Expanded |-> <<M.BeginExpanded, M.EndExpanded>>]

\* Variant: the partition predicate is BeginSpelled <= SpelledIndex.
expansionStartingAtNonStrict(FID, SpelledIndex) ==
  LET File == Result.Files[FID]
      M == partition_point([k \in 1..Len(File.Mappings) |->
                              File.Mappings[k].BeginSpelled <= SpelledIndex])
  IN  IF M = Len(File.Mappings) \/ File.Mappings[M + 1].BeginSpelled # SpelledIndex
        THEN NoExpansion
        ELSE ExpansionOf(File.Mappings[M + 1])

\* expansionStartingAt(&Files[FID].SpelledTokens[SpelledIndex])
expansionStartingAt(FID, SpelledIndex) ==
  LET File == Result.Files[FID]
      M == partition_point([k \in 1..Len(File.Mappings) |->
                              File.Mappings[k].BeginSpelled < SpelledIndex])
  IN  IF M = Len(File.Mappings) \/ File.Mappings[M + 1].BeginSpelled # SpelledIndex
        THEN NoExpansion
        ELSE ExpansionOf(File.Mappings[M + 1])

\* ---- tokens around a position of a file ----
\* Character positions: the token at [file, off] starts at character
\* 2 * off of its file; an identifier is two characters long and ends where
\* the next token starts, any other token is one character long and is
\* followed by a blank.
tokLength(T) == IF T.kind = "identifier" THEN 2 ELSE 1
CharOffset(l) == 2 * l.off
\* Token::endLocation()
endLocation(T) == CharOffset(T.loc) + tokLength(T)

\* Variant: the token on the left is accepted only when it ends after Loc.
spelledTokensTouchingStrictLeft(FID, Loc) ==
  LET All == Result.Files[FID].SpelledTokens
      Right == partition_point([k \in 1..Len(All) |-> CharOffset(All[k].loc) < Loc])
      AcceptRight == Right # Len(All) /\ CharOffset(All[Right + 1].loc) <= Loc
      AcceptLeft == Right # 0 /\ endLocation(All[Right]) > Loc
  IN  SubSeq(All, Right - (IF AcceptLeft THEN 1 ELSE 0) + 1,
             Right + (IF AcceptRight THEN 1 ELSE 0))

\* spelledTokensTouching(Loc, Tokens): Loc is character Loc of file FID.
spelledTokensTouching(FID, Loc) ==
  LET All == Result.Files[FID].SpelledTokens
      Right == partition_point([k \in 1..Len(All) |-> CharOffset(All[k].loc) < Loc])
      AcceptRight == Right # Len(All) /\ CharOffset(All[Right + 1].loc) <= Loc
      AcceptLeft == Right # 0 /\ endLocation(All[Right]) >= Loc
  IN  SubSeq(All, Right - (IF AcceptLeft THEN 1 ELSE 0) + 1,
             Right + (IF AcceptRight THEN 1 ELSE 0))

NoToken == Tok(InvalidLoc, "unknown")

RECURSIVE firstIdentifier(_)
firstIdentifier(Toks) ==
  IF Toks = <<>> THEN NoToken
  ELSE IF Toks[1].kind = "identifier" THEN Toks[1]
  ELSE firstIdentifier(Tail(Toks))

\* spelledIdentifierTouching(Loc, Tokens)
spelledIdentifierTouching(FID, Loc) == firstIdentifier(spelledTokensTouching(FID, Loc))

Init ==
  /\ fileToks = [f \in 1..MaxFiles |-> <<>>]
  /\ incAt = [f \in 1..MaxFiles |-> 0]
  /\ nfiles = 1
  /\ cur = MainFile
  /\ ppMode = "top"
  /\ curExp = InvalidLoc
  /\ curEnd = InvalidLoc
  /\ nextId = 1
  /\ watcher = TRUE
  /\ ev = NoEvent("Init")
  /\ nlate = 0
  /\ Expanded = <<>>
  /\ Expansions = <<>>
  /\ Collector = TRUE
  /\ LastExpansionEnd = InvalidLoc
  /\ pc = "collect"
  /\ Result = [ExpandedTokens |-> <<>>, Files |-> <<>>]
  /\ NextExpanded = 0
  /\ NextSpelled = <<>>
  /\ CollectedExpansions = <<>>
  /\ drainTodo = {}

Next ==
  \/ PPFileToken
  \/ PPSkipToken
  \/ PPMacroCall
  \/ PPNestedExpansion
  \/ PPMergedExpansion
  \/ PPMacroToken
  \/ PPAnnotation
  \/ PPEnterInclude
  \/ PPExitInclude
  \/ PPEof
  \/ Consume
  \/ BuildDiscard
  \/ BuildAdvance
  \/ BuildDrain
  \/ PPLateMacroExpands
  \/ PPLateToken

Spec == Init /\ [][Next]_vars

\* ---- Builder::build on an arbitrary collected state ----
\* consume() hands the Builder whatever the callbacks collected.  Here the
\* collected state is drawn freely: the main file holds n spelled tokens,
\* the expanded stream is any sequence of file and macro tokens located at
\* them followed by eof, and the expansion table maps any set of spelled
\* locations to an end at or after the key (a macro call never ends before
\* its name).  The table need not agree with the expanded stream.
MaxBuildSpelled == 3
MaxBuildExpanded == 2

BuildFile(n) ==
  [f \in 1..MaxFiles |->
     IF f = MainFile THEN [j \in 1..n |-> Tok(FileLoc(MainFile, j), "identifier")]
     ELSE <<>>]

BuildTokens(n) ==
  {Tok(FileLoc(MainFile, o), "identifier") : o \in 1..n}
  \cup {Tok(MacroLoc(FileLoc(MainFile, o), 1), "identifier") : o \in 1..n}

BuildStreams(n) ==
  {s \o <<Tok(FileLoc(MainFile, n + 1), "eof")>> :
     s \in UNION {[1..m -> BuildTokens(n)] : m \in 0..MaxBuildExpanded}}

BuildTables(n) ==
  UNION {{t \in [{getRawEncoding(FileLoc(MainFile, o)) : o \in K} ->
                   {FileLoc(MainFile, e) : e \in 1..n}] :
            \A o \in K : t[getRawEncoding(FileLoc(MainFile, o))].off >= o} :
         K \in SUBSET (1..n)}

BuildInit ==
  /\ \E n \in 0..MaxBuildSpelled :
       /\ fileToks = BuildFile(n)
       /\ Expanded \in BuildStreams(n)
       /\ Expansions \in BuildTables(n)
  /\ incAt = [f \in 1..MaxFiles |-> 0]
  /\ nfiles = 1
  /\ cur = MainFile
  /\ ppMode = "eof"
  /\ curExp = InvalidLoc
  /\ curEnd = InvalidLoc
  /\ nextId = 2
  /\ watcher = TRUE
  /\ ev = NoEvent("Init")
  /\ nlate = 0
  /\ Collector = TRUE
  /\ LastExpansionEnd = InvalidLoc
  /\ pc = "collect"
  /\ Result = [ExpandedTokens |-> <<>>, Files |-> <<>>]
  /\ NextExpanded = 0
  /\ NextSpelled = <<>>
  /\ CollectedExpansions = <<>>
  /\ drainTodo = {}

BuildNext ==
  \/ Consume
  \/ BuildDiscard
  \/ BuildAdvance
  \/ BuildDrain

BuildSpec == BuildInit /\ [][BuildNext]_vars
\* ---- CollectPPExpansions on an arbitrary sequence of events ----
\* The capturer alone: the main file holds MaxCaptureOffset + 1 tokens and
\* every other file one, file f > 1 was included at token
\* f - 1 of the main file, and the callback is called with any pair of file
\* or macro locations at those tokens, in any order, before and after
\* disable().
MaxCaptureOffset == 1

CaptureLen(f) == IF f = MainFile THEN MaxCaptureOffset + 1 ELSE 1

CaptureFileLocs ==
  UNION {{FileLoc(f, o) : o \in 1..CaptureLen(f)} : f \in 1..MaxFiles}

CaptureLocs == CaptureFileLocs \cup {MacroLoc(l, 1) : l \in CaptureFileLocs}

CaptureInit ==
  /\ fileToks = [f \in 1..MaxFiles |->
                   [j \in 1..CaptureLen(f) |-> Tok(FileLoc(f, j), "identifier")]]
  /\ incAt = [f \in 1..MaxFiles |-> f - 1]
  /\ nfiles = MaxFiles
  /\ cur = MainFile
  /\ ppMode = "top"
  /\ curExp = InvalidLoc
  /\ curEnd = InvalidLoc
  /\ nextId = 2
  /\ watcher = TRUE
  /\ ev = NoEvent("Init")
  /\ nlate = 0
  /\ Expanded = <<>>
  /\ Expansions = <<>>
  /\ Collector = TRUE
  /\ LastExpansionEnd = InvalidLoc
  /\ pc = "collect"
  /\ Result = [ExpandedTokens |-> <<>>, Files |-> <<>>]
  /\ NextExpanded = 0
  /\ NextSpelled = <<>>
  /\ CollectedExpansions = <<>>
  /\ drainTodo = {}

CaptureMacroExpands ==
  /\ \E b \in CaptureLocs : \E e \in CaptureLocs : MacroExpands(b, e)
  /\ UNCHANGED <<watcher, nlate, Expanded, Collector, pc>>
  /\ UNCHANGED ppVars
  /\ UNCHANGED bldVars

CaptureDisable ==
  /\ Collector
  /\ disable
  /\ ev' = NoEvent("disable")
  /\ UNCHANGED <<watcher, nlate, pc>>
  /\ UNCHANGED ppVars
  /\ UNCHANGED colVars
  /\ UNCHANGED bldVars

CaptureNext ==
  \/ CaptureMacroExpands
  \/ CaptureDisable

CaptureSpec == CaptureInit /\ [][CaptureNext]_vars

\* ---- properties of the finished TokenBuffer ----
Done == pc = "done"
Files == Result.Files
ET == Result.ExpandedTokens
MappingsOf(f) == Result.Files[f].Mappings
SpelledOf(f) == Result.Files[f].SpelledTokens
Pairs(f) == 1..(Len(MappingsOf(f)) - 1)
InExpanded(M, i) == M.BeginExpanded <= i /\ i < M.EndExpanded
InSpelled(M, j) == M.BeginSpelled <= j /\ j < M.EndSpelled

\* C1: after build() the Mappings of every file are ordered and overlap on
\* neither side: consecutive Mappings M1, M2 have M1.EndSpelled <=
\* M2.BeginSpelled and M1.EndExpanded <= M2.BeginExpanded.
C1_MappingsOrdered ==
  Done => \A f \in DOMAIN Files : \A k \in Pairs(f) :
            /\ MappingsOf(f)[k].EndSpelled <= MappingsOf(f)[k + 1].BeginSpelled
            /\ MappingsOf(f)[k].EndExpanded <= MappingsOf(f)[k + 1].BeginExpanded

\* A finished buffer where the Mapping of a merged expansion (its spelled
\* side ends with the argument tokens of the inner call) is followed by
\* another Mapping of the same file.
C1_Witness ==
  /\ Done
  /\ \E f \in DOMAIN Files : \E k \in Pairs(f) :
       /\ MappingsOf(f)[k].BeginExpanded < MappingsOf(f)[k].EndExpanded
       /\ At(SpelledOf(f), MappingsOf(f)[k].EndSpelled - 1).kind = "arg"

\* C2: after build() every expanded token but the final eof is inside a
\* Mapping of its file or has exactly one spelled token of its file at the
\* same location, which is outside every Mapping (a file-token run).
C2_ExpandedCovered ==
  Done => \A i \in 0..(Len(ET) - 2) :
            LET f == FileOfExpanded(i)
                same == {j \in 0..(Len(SpelledOf(f)) - 1) :
                           At(SpelledOf(f), j).loc = At(ET, i).loc}
            IN  \/ \E k \in 1..Len(MappingsOf(f)) : InExpanded(MappingsOf(f)[k], i)
                \/ /\ Cardinality(same) = 1
                   /\ \A j \in same : \A k \in 1..Len(MappingsOf(f)) :
                        ~InSpelled(MappingsOf(f)[k], j)

\* A finished buffer with a token inside a Mapping and a file token.
C2_Witness ==
  /\ Done
  /\ \E i \in 0..(Len(ET) - 2) : ~isFileID(At(ET, i).loc)
  /\ \E i \in 0..(Len(ET) - 2) : isFileID(At(ET, i).loc)

\* The end of the Mapping before position k of file f; before the first
\* Mapping, spelled index 0 and the file's BeginExpanded.
PrevEndSpelled(f, k) == IF k = 1 THEN 0 ELSE MappingsOf(f)[k - 1].EndSpelled
PrevEndExpanded(f, k) ==
  IF k = 1 THEN Files[f].BeginExpanded ELSE MappingsOf(f)[k - 1].EndExpanded

\* C3: after build() the spelled tokens in the gap before each Mapping
\* match, offset by offset, the expanded tokens that follow the previous
\* Mapping (or the file's BeginExpanded).
C3_GapsAreFileRuns ==
  Done => \A f \in DOMAIN Files : \A k \in 1..Len(MappingsOf(f)) :
            \A d \in 0..Len(SpelledOf(f)) :
              PrevEndSpelled(f, k) + d < MappingsOf(f)[k].BeginSpelled =>
                /\ PrevEndExpanded(f, k) + d < Len(ET)
                /\ At(SpelledOf(f), PrevEndSpelled(f, k) + d).loc
                     = At(ET, PrevEndExpanded(f, k) + d).loc

\* A finished buffer where tokens of an included file lie between two
\* Mappings of the main file and the gap between them is not empty.
C3_Witness ==
  /\ Done
  /\ \E k \in 2..Len(MappingsOf(MainFile)) :
       /\ MappingsOf(MainFile)[k - 1].EndSpelled < MappingsOf(MainFile)[k].BeginSpelled
       /\ \E i \in MappingsOf(MainFile)[k - 1].EndExpanded
                     ..(MappingsOf(MainFile)[k].BeginExpanded - 1) :
            FileOfExpanded(i) # MainFile

FileTokenAnswered(i) ==
  LET r == spelledForExpandedToken(i)
  IN  /\ r.map = 0
      /\ PointsAtSpelled(r)
      /\ At(SpelledOf(r.file), r.idx).loc = At(ET, i).loc

\* C5 as stated: every expanded token with a file location, the final eof
\* included, is answered with the spelled token of the same location and no
\* Mapping.
C5_Original ==
  Done => \A i \in 0..(Len(ET) - 1) : isFileID(At(ET, i).loc) => FileTokenAnswered(i)

\* C5 amended: every expanded token with a file location other than the
\* final eof is answered with the spelled token of the same location and no
\* Mapping.
C5_FileTokens ==
  Done => \A i \in 0..(Len(ET) - 2) : isFileID(At(ET, i).loc) => FileTokenAnswered(i)

\* A file token at the position of an empty Mapping of its file.
C5_Witness ==
  /\ Done
  /\ \E i \in 0..(Len(ET) - 2) :
       /\ isFileID(At(ET, i).loc)
       /\ \E k \in 1..Len(MappingsOf(FileOfExpanded(i))) :
            /\ MappingsOf(FileOfExpanded(i))[k].BeginExpanded = i
            /\ MappingsOf(FileOfExpanded(i))[k].EndExpanded = i

RoundTrip(f, M) ==
  spelledForExpanded(M.BeginExpanded, M.EndExpanded)
    = SomeRange(f, M.BeginSpelled, M.EndSpelled)

\* C6 as stated: spelledForExpanded of the expanded slice of every Mapping
\* is the spelled range of the Mapping.
C6_Original ==
  Done => \A f \in DOMAIN Files : \A k \in 1..Len(MappingsOf(f)) :
            RoundTrip(f, MappingsOf(f)[k])

\* C6 amended: spelledForExpanded of the expanded slice of every Mapping
\* with a non-empty expanded side is the spelled range of the Mapping.
C6_RoundTrip ==
  Done => \A f \in DOMAIN Files : \A k \in 1..Len(MappingsOf(f)) :
            MappingsOf(f)[k].BeginExpanded < MappingsOf(f)[k].EndExpanded
              => RoundTrip(f, MappingsOf(f)[k])

\* A Mapping with two spelled tokens and a non-empty expanded side that
\* starts where an empty Mapping is positioned.
C6_Witness ==
  /\ Done
  /\ \E f \in DOMAIN Files : \E k \in Pairs(f) :
       /\ MappingsOf(f)[k].BeginExpanded = MappingsOf(f)[k].EndExpanded
       /\ MappingsOf(f)[k + 1].BeginExpanded = MappingsOf(f)[k].BeginExpanded
       /\ MappingsOf(f)[k + 1].BeginExpanded < MappingsOf(f)[k + 1].EndExpanded
       /\ MappingsOf(f)[k + 1].BeginSpelled + 1 < MappingsOf(f)[k + 1].EndSpelled

\* C7: expansionStartingAt(S) has a value exactly when a Mapping of the
\* file begins at S, and the value is the two slices of such a Mapping.
C7_ExpansionStartingAt ==
  Done => \A f \in DOMAIN Files : \A j \in 0..(Len(SpelledOf(f)) - 1) :
            LET starts == {k \in 1..Len(MappingsOf(f)) :
                             MappingsOf(f)[k].BeginSpelled = j}
                r == expansionStartingAt(f, j)
            IN  /\ r.kind = "some" <=> starts # {}
                /\ r.kind = "some" =>
                     \E k \in starts : r = ExpansionOf(MappingsOf(f)[k])

\* A file with three Mappings and a spelled token that starts none.
C7_Witness ==
  /\ Done
  /\ \E f \in DOMAIN Files :
       /\ Len(MappingsOf(f)) >= 3
       /\ \E j \in 0..(Len(SpelledOf(f)) - 1) : expansionStartingAt(f, j).kind = "none"

\* C8 as stated: consecutive Mappings of a file begin at strictly
\* increasing spelled and strictly increasing expanded indices.
C8_Original ==
  Done => \A f \in DOMAIN Files : \A k \in Pairs(f) :
            /\ MappingsOf(f)[k].BeginSpelled < MappingsOf(f)[k + 1].BeginSpelled
            /\ MappingsOf(f)[k].BeginExpanded < MappingsOf(f)[k + 1].BeginExpanded

\* C8 amended: consecutive Mappings of a file begin at strictly increasing
\* spelled indices and at non-decreasing expanded indices.
C8_StrictSpelled ==
  Done => \A f \in DOMAIN Files : \A k \in Pairs(f) :
            /\ MappingsOf(f)[k].BeginSpelled < MappingsOf(f)[k + 1].BeginSpelled
            /\ MappingsOf(f)[k].BeginExpanded <= MappingsOf(f)[k + 1].BeginExpanded

\* An empty Mapping directly followed by a macro Mapping at the same
\* expanded index.
C8_Witness ==
  /\ Done
  /\ \E f \in DOMAIN Files : \E k \in Pairs(f) :
       /\ MappingsOf(f)[k].BeginExpanded = MappingsOf(f)[k + 1].BeginExpanded
       /\ MappingsOf(f)[k + 1].BeginExpanded < MappingsOf(f)[k + 1].EndExpanded

\* C9: a MacroExpands event delivered to an enabled capturer changes the
\* expansion table and LastExpansionEnd exactly when its end is a file
\* location and LastExpansionEnd is invalid or before that end in the
\* translation unit; every other event changes neither.
C9_Filter ==
  [][(ev'.cb = "MacroExpands" /\ Collector) =>
       LET passes == /\ isFileID(ev'.end)
                     /\ \/ ~isValid(LastExpansionEnd)
                        \/ isBeforeInTranslationUnit(LastExpansionEnd, ev'.end)
       IN  /\ passes => (Expansions' # Expansions /\ LastExpansionEnd' # LastExpansionEnd)
           /\ ~passes => (Expansions' = Expansions /\ LastExpansionEnd' = LastExpansionEnd)
           /\ passes => LastExpansionEnd' = ev'.end]_vars

\* An event with a file end inside the recorded call has just been dropped.
C9_Witness ==
  /\ ev.cb = "MacroExpands"
  /\ Collector
  /\ isFileID(ev.end)
  /\ isFileID(ev.begin)
  /\ LastExpansionEnd # ev.end
  /\ DOMAIN Expansions # {}

\* C10: once consume() has been called no callback of the preprocessor
\* changes the collector's token sequence, its expansion table, the
\* capturer's LastExpansionEnd or the tokens and expansions of the buffer.
C10_NoLateChange ==
  [][pc # "collect" =>
       /\ Expanded' = Expanded
       /\ Expansions' = Expansions
       /\ LastExpansionEnd' = LastExpansionEnd
       /\ Result'.ExpandedTokens = Result.ExpandedTokens
       /\ CollectedExpansions' = CollectedExpansions]_vars

\* After consume() a MacroExpands event that the filter of an enabled
\* capturer would accept has been delivered.
C10_Witness ==
  /\ Done
  /\ nlate > 0
  /\ ev.cb = "MacroExpands"
  /\ isFileID(ev.begin)

\* ---- the loop of Builder::build ----
\* C11: in every iteration of the main loop of build(), discard() leaves
\* NextExpanded unchanged and advance() strictly increases NextExpanded or
\* the build stops in the fatal state, so no iteration starts with the
\* NextExpanded of an earlier one and the loop ends within size-1 iterations.
C11_LoopProgress ==
  [][/\ pc = "discard" => pc' = "advance" /\ NextExpanded' = NextExpanded
     /\ pc = "advance" =>
          \/ pc' = "fatal"
          \/ /\ NextExpanded' > NextExpanded
             /\ NextExpanded' <= Len(Result.ExpandedTokens)
             /\ pc' \in {"discard", "drain"}]_vars

\* The build stopped in diagnoseAdvanceFailure() after an earlier iteration
\* had made progress.
C11_Witness == pc = "fatal" /\ NextExpanded > 0 /\ ev.cb = "advance"

\* advance() is at a macro token whose expansion location is not a key of
\* the captured expansion table.
MissingExpansion ==
  /\ pc = "advance"
  /\ ~isFileID(At(Result.ExpandedTokens, NextExpanded).loc)
  /\ ~isValid(Lookup(CollectedExpansions,
                     getRawEncoding(getExpansionLoc(
                       At(Result.ExpandedTokens, NextExpanded).loc))))

\* C12: when advance() reads a macro token whose expansion location is not
\* a key of the captured expansion table, the build ends in the fatal
\* state: no Mapping is stored for the token and no TokenBuffer is returned.
C12_MissingIsFatal ==
  [][MissingExpansion => pc' = "fatal" /\ Result' = Result]_vars

\* ---- merged expansions ----
\* The expanded indices whose expansion location is l.
RootedAt(l) == {i \in 0..(Len(ET) - 1) : getExpansionLoc(At(ET, i).loc) = l}
Span(M) == M.BeginExpanded..(M.EndExpanded - 1)

\* Spelled index e of file f is the last argument token of a merged
\* expansion (the closing token of the inner call).
MergedEnd(f, e) ==
  /\ At(SpelledOf(f), e).kind = "arg"
  /\ e + 1 < Len(SpelledOf(f)) => At(SpelledOf(f), e + 1).kind # "arg"

\* C13: for a macro whose body ends in the name of a function-like macro
\* that takes its arguments from the file after the outer call, the
\* capturer stores the inner end under the outer call's spelling-begin key
\* and the Builder produces exactly one Mapping for the construct: spelled
\* side from the outer name through the inner closing token, expanded side
\* all tokens rooted at the outer expansion location, and no second
\* Mapping for the inner macro.
C13_MergedMapping ==
  Done => \A f \in DOMAIN Files : \A e \in 0..(Len(SpelledOf(f)) - 1) :
            MergedEnd(f, e) =>
              \E k \in 1..Len(MappingsOf(f)) :
                LET M == MappingsOf(f)[k]
                    Name == At(SpelledOf(f), M.BeginSpelled)
                IN  /\ M.BeginSpelled < e
                    /\ M.EndSpelled = e + 1
                    /\ Name.kind = "identifier"
                    /\ Lookup(CollectedExpansions, getRawEncoding(Name.loc))
                         = At(SpelledOf(f), e).loc
                    /\ Span(M) = RootedAt(Name.loc)
                    /\ \A k2 \in 1..Len(MappingsOf(f)) :
                         k2 # k => ~InSpelled(M, MappingsOf(f)[k2].BeginSpelled)

\* '#define B(X) X', '#define A 1 + B', 'A(2)': one Mapping from the four
\* spelled tokens 'A ( 2 )' to the three expanded tokens '1 + 2'.
C13_Witness ==
  /\ Done
  /\ Len(SpelledOf(MainFile)) = 4
  /\ MergedEnd(MainFile, 3)
  /\ At(SpelledOf(MainFile), 1).kind = "arg"
  /\ MappingsOf(MainFile) = <<NewMapping(0, 4, 0, 3)>>

\* ---- macro calls without expanded tokens ----
Min(S) == CHOOSE x \in S : \A y \in S : x <= y

\* Spelled token j of file f begins a recorded expansion no expanded token
\* is rooted at.
EmptyCall(f, j) ==
  /\ getRawEncoding(fileToks[f][j + 1].loc) \in DOMAIN CollectedExpansions
  /\ RootedAt(fileToks[f][j + 1].loc) = {}

\* The first expanded token after location l in the expanded stream.
NextInStream(l) ==
  Min({i \in 0..(Len(ET) - 1) : isBeforeInTranslationUnit(l, At(ET, i).loc)})

\* The first expanded token of file f after location l, or the end of the
\* file's expanded range.
NextInFile(f, l) ==
  Min({i \in 0..(Len(ET) - 1) :
         FileOfExpanded(i) = f /\ LocLess(l, getExpansionLoc(At(ET, i).loc))}
      \cup {Files[f].EndExpanded})

\* The Mapping of the empty call at spelled token j, positioned at n.
EmptyCallMapping(f, j, n) ==
  NewMapping(j, CollectedExpansions[getRawEncoding(fileToks[f][j + 1].loc)].off, n, n)

HasMapping(f, M) ==
  f \in DOMAIN Files /\ \E k \in 1..Len(MappingsOf(f)) : MappingsOf(f)[k] = M

\* C14 as stated: every recorded top-level macro call that produced no
\* expanded tokens has a Mapping of its own from its spelled tokens (name
\* through recorded end) to the empty expanded range at the index of the
\* next expanded token.
C14_Original ==
  Done => \A f \in 1..nfiles : \A j \in 0..(Len(fileToks[f]) - 1) :
            EmptyCall(f, j) =>
              HasMapping(f, EmptyCallMapping(f, j, NextInStream(fileToks[f][j + 1].loc)))

\* C14 (amended): in a file that has expanded tokens, every recorded
\* top-level macro call that produced no expanded tokens has a Mapping of
\* its own from exactly its spelled tokens (name through recorded end) to
\* the empty expanded range at the index of the next expanded token of the
\* same file, or at the file's EndExpanded when there is none; discarded
\* tokens before or after it are in other Mappings.
C14_EmptyCallMapping ==
  Done => \A f \in DOMAIN Files : \A j \in 0..(Len(SpelledOf(f)) - 1) :
            EmptyCall(f, j) =>
              /\ HasMapping(f, EmptyCallMapping(f, j, NextInFile(f, fileToks[f][j + 1].loc)))
              /\ \A k \in 1..Len(MappingsOf(f)) :
                   InSpelled(MappingsOf(f)[k], j) => MappingsOf(f)[k].BeginSpelled = j

\* A macro call without expanded tokens that stands between two skipped
\* tokens, all three in Mappings of their own at the same expanded index.
C14_Witness ==
  /\ Done
  /\ \E j \in 1..(Len(SpelledOf(MainFile)) - 2) :
       /\ EmptyCall(MainFile, j)
       /\ \E k \in 2..(Len(MappingsOf(MainFile)) - 1) :
            /\ MappingsOf(MainFile)[k].BeginSpelled = j
            /\ MappingsOf(MainFile)[k - 1].EndSpelled = j
            /\ MappingsOf(MainFile)[k - 1].BeginExpanded = MappingsOf(MainFile)[k].BeginExpanded
            /\ MappingsOf(MainFile)[k + 1].BeginSpelled = MappingsOf(MainFile)[k].EndSpelled
            /\ MappingsOf(MainFile)[k + 1].EndExpanded = MappingsOf(MainFile)[k].EndExpanded

\* ---- the drain loop of build() ----
\* The file the step drains.
Drained == drainTodo \ drainTodo'
AddedMappings(f) == (Len(MappingsOf(f)) + 1)..Len(Result'.Files[f].Mappings)

\* C15: a drain step leaves NextExpanded and the Mappings already stored
\* unchanged; for the drained file it appends Mappings with an empty
\* expanded side positioned at the file's EndExpanded that cover every
\* spelled token from the file's NextSpelled to the end of the file; the
\* other files are untouched.
C15_Drain ==
  [][pc = "drain" =>
       /\ NextExpanded' = NextExpanded
       /\ Cardinality(Drained) = 1
       /\ \A f \in DOMAIN Files :
            /\ Len(Result'.Files[f].Mappings) >= Len(MappingsOf(f))
            /\ SubSeq(Result'.Files[f].Mappings, 1, Len(MappingsOf(f))) = MappingsOf(f)
            /\ \A k \in AddedMappings(f) :
                 /\ Result'.Files[f].Mappings[k].BeginExpanded = Files[f].EndExpanded
                 /\ Result'.Files[f].Mappings[k].EndExpanded = Files[f].EndExpanded
            /\ f \in Drained =>
                 /\ NextSpelled'[f] = Len(SpelledOf(f))
                 /\ \A j \in NextSpelled[f]..(Len(SpelledOf(f)) - 1) :
                      \E k \in AddedMappings(f) :
                        InSpelled(Result'.Files[f].Mappings[k], j)
            /\ f \notin Drained =>
                 /\ NextSpelled'[f] = NextSpelled[f]
                 /\ Result'.Files[f] = Files[f]]_vars

\* The drain has appended a Mapping for the trailing tokens of an included
\* file whose expanded range is not empty and ends before the main file's.
C15_Witness ==
  /\ Done
  /\ \E f \in DOMAIN Files :
       /\ f # MainFile
       /\ Files[f].BeginExpanded < Files[f].EndExpanded
       /\ Files[f].EndExpanded < Len(ET) - 1
       /\ Len(MappingsOf(f)) > 0
       /\ LET M == MappingsOf(f)[Len(MappingsOf(f))]
          IN  /\ M.BeginExpanded = Files[f].EndExpanded
              /\ M.EndExpanded = Files[f].EndExpanded
              /\ M.BeginSpelled < M.EndSpelled
              /\ M.EndSpelled = Len(SpelledOf(f))

\* ---- spelledForExpanded, case by case ----
\* The Mappings of its file that contain expanded token i.
CoverOf(i) ==
  {k \in 1..Len(MappingsOf(FileOfExpanded(i))) :
     InExpanded(MappingsOf(FileOfExpanded(i))[k], i)}

\* The index of the spelled token at the location of expanded token i, -1
\* when its file has none.
SpelledIndexOf(i) ==
  LET same == {j \in 0..(Len(SpelledOf(FileOfExpanded(i))) - 1) :
                 At(SpelledOf(FileOfExpanded(i)), j).loc = At(ET, i).loc}
  IN  IF same = {} THEN -1 ELSE CHOOSE j \in same : TRUE

ExpectedBegin(i) ==
  IF CoverOf(i) = {} THEN SpelledIndexOf(i)
  ELSE MappingsOf(FileOfExpanded(i))[CHOOSE k \in CoverOf(i) : TRUE].BeginSpelled

ExpectedEnd(i) ==
  IF CoverOf(i) = {} THEN SpelledIndexOf(i) + 1
  ELSE MappingsOf(FileOfExpanded(i))[CHOOSE k \in CoverOf(i) : TRUE].EndSpelled

ExpectedSpelled(Begin, End) ==
  IF Begin = End THEN NoneRange
  ELSE IF FileOfExpanded(Begin) # FileOfExpanded(End - 1) THEN NoneRange
  ELSE IF \E k \in CoverOf(Begin) :
            MappingsOf(FileOfExpanded(Begin))[k].BeginExpanded < Begin THEN NoneRange
  ELSE IF \E k \in CoverOf(End - 1) :
            MappingsOf(FileOfExpanded(End - 1))[k].EndExpanded > End THEN NoneRange
  ELSE SomeRange(FileOfExpanded(Begin), ExpectedBegin(Begin), ExpectedEnd(End - 1))

\* C16 as stated: for every range of expanded tokens spelledForExpanded
\* returns none for an empty range, for first and last tokens of different
\* files, for a first token inside a Mapping that begins before the range
\* and for a last token inside a Mapping that ends after it, and otherwise
\* the spelled range from the begin Mapping's BeginSpelled (or the spelled
\* token of the first token) to the end Mapping's EndSpelled (or one past
\* the spelled token of the last token).
C16_Original ==
  Done => \A Begin \in 0..Len(ET) : \A End \in Begin..Len(ET) :
            spelledForExpanded(Begin, End) = ExpectedSpelled(Begin, End)

\* C16 (amended): the same, for the ranges of expanded tokens that do not
\* contain the final eof token.
C16_SpelledForExpanded ==
  Done => \A Begin \in 0..(Len(ET) - 1) : \A End \in Begin..(Len(ET) - 1) :
            spelledForExpanded(Begin, End) = ExpectedSpelled(Begin, End)

\* A finished buffer with a range that begins inside a Mapping (none), one
\* that ends inside a Mapping (none), one across two files (none) and one
\* that is the expanded side of a Mapping (mapped).
C16_Witness ==
  /\ Done
  /\ \E Begin \in 0..(Len(ET) - 1) : \E End \in (Begin + 1)..(Len(ET) - 1) :
       /\ \E k \in CoverOf(Begin) :
            MappingsOf(FileOfExpanded(Begin))[k].BeginExpanded < Begin
       /\ spelledForExpanded(Begin, End) = NoneRange
  /\ \E Begin \in 0..(Len(ET) - 1) : \E End \in (Begin + 1)..(Len(ET) - 1) :
       /\ \E k \in CoverOf(End - 1) :
            MappingsOf(FileOfExpanded(End - 1))[k].EndExpanded > End
       /\ spelledForExpanded(Begin, End) = NoneRange
  /\ \E Begin \in 0..(Len(ET) - 1) : \E End \in (Begin + 1)..(Len(ET) - 1) :
       /\ FileOfExpanded(Begin) # FileOfExpanded(End - 1)
       /\ spelledForExpanded(Begin, End) = NoneRange
  /\ \E Begin \in 0..(Len(ET) - 1) : \E End \in (Begin + 1)..(Len(ET) - 1) :
       /\ CoverOf(Begin) # {}
       /\ spelledForExpanded(Begin, End).kind = "some"

\* ---- spelledTokensTouching ----
Touches(T, Loc) == CharOffset(T.loc) <= Loc /\ Loc <= endLocation(T)
TouchingTokens(f, Loc) == SelectSeq(SpelledOf(f), LAMBDA T : Touches(T, Loc))
CharPositions(f) == 0..(2 * Len(SpelledOf(f)) + 3)

\* C17: for every position of a tracked file spelledTokensTouching returns,
\* in file order, exactly the spelled tokens T of the file with T.location
\* <= loc <= T.endLocation, never more than two; where two tokens meet it
\* returns both, the left one first, and spelledIdentifierTouching returns the
\* left one when both are identifiers.
C17_Touching ==
  Done => \A f \in DOMAIN Files : \A Loc \in CharPositions(f) :
            LET r == spelledTokensTouching(f, Loc)
            IN  /\ r = TouchingTokens(f, Loc)
                /\ Len(r) <= 2
                /\ Len(r) = 2 =>
                     /\ endLocation(r[1]) = Loc
                     /\ CharOffset(r[2].loc) = Loc
                     /\ r[1].kind = "identifier" /\ r[2].kind = "identifier"
                          => spelledIdentifierTouching(f, Loc) = r[1]
                /\ spelledIdentifierTouching(f, Loc) = firstIdentifier(TouchingTokens(f, Loc))

\* A finished buffer with a position where two identifiers meet, a position
\* inside a token, and the end of a token that a blank separates from the
\* next token.
C17_Witness ==
  /\ Done
  /\ \E Loc \in CharPositions(MainFile) :
       /\ Len(spelledTokensTouching(MainFile, Loc)) = 2
       /\ spelledTokensTouching(MainFile, Loc)[2].kind = "identifier"
       /\ spelledIdentifierTouching(MainFile, Loc) = spelledTokensTouching(MainFile, Loc)[1]
  /\ \E Loc \in CharPositions(MainFile) :
       /\ Len(spelledTokensTouching(MainFile, Loc)) = 1
       /\ CharOffset(spelledTokensTouching(MainFile, Loc)[1].loc) < Loc
       /\ Loc < endLocation(spelledTokensTouching(MainFile, Loc)[1])
  /\ \E Loc \in CharPositions(MainFile) :
       /\ Loc < 2 * Len(SpelledOf(MainFile))
       /\ Len(spelledTokensTouching(MainFile, Loc)) = 1
       /\ endLocation(spelledTokensTouching(MainFile, Loc)[1]) = Loc

\* ---- tokenize ----
NotEof(T) == T.kind # "eof"
Terminator(f) == RawLex(f)[Len(RawLex(f))]

\* C18: the spelled tokens of every tracked file are the tokens the raw
\* lexer produced, in lexing order, without the terminating token when it
\* is eof and with it when it is not; no SpelledTokens contains an eof
\* token, and the last expanded token has kind eof.
C18_Tokenize ==
  pc # "collect" =>
    /\ \A f \in DOMAIN Files :
         /\ SpelledOf(f) = SelectSeq(RawLex(f), NotEof)
         /\ SpelledOf(f) = fileToks[f]
         /\ NotEof(Terminator(f)) => SpelledOf(f)[Len(SpelledOf(f))] = Terminator(f)
         /\ \A j \in 1..Len(SpelledOf(f)) : NotEof(SpelledOf(f)[j])
    /\ ET[Len(ET)].kind = "eof"

\* Two tracked files: the raw lexer ends one with its last token and the
\* other with an eof token after at least one token.
C18_Witness ==
  /\ Done
  /\ \E f \in DOMAIN Files : NotEof(Terminator(f)) /\ Len(SpelledOf(f)) > 1
  /\ \E f \in DOMAIN Files : ~NotEof(Terminator(f)) /\ Len(SpelledOf(f)) > 0

\* ---- buildSpelledTokens ----
Max(S) == CHOOSE x \in S : \A y \in S : x >= y
\* The expanded indices whose expansion location is in file f.
IndicesOf(f) == {i \in 0..(Len(ET) - 1) : FileOfExpanded(i) = f}

\* C19: once buildSpelledTokens has run, the tracked files are exactly the
\* files of the expansion locations of the expanded tokens; for each file
\* BeginExpanded is the smallest index of its tokens and EndExpanded is one
\* past the largest, except that it is the index of the eof token when that
\* is the largest; so BeginExpanded <= EndExpanded and the eof token is in
\* no file's range.
C19_FileRanges ==
  pc # "collect" =>
    /\ DOMAIN Files = {FileOfExpanded(i) : i \in 0..(Len(ET) - 1)}
    /\ \A f \in DOMAIN Files :
         /\ Files[f].BeginExpanded = Min(IndicesOf(f))
         /\ Files[f].EndExpanded =
              IF At(ET, Max(IndicesOf(f))).kind = "eof" THEN Max(IndicesOf(f))
              ELSE Max(IndicesOf(f)) + 1
         /\ Files[f].BeginExpanded <= Files[f].EndExpanded
         /\ ~(Files[f].BeginExpanded <= Len(ET) - 1 /\ Len(ET) - 1 < Files[f].EndExpanded)

\* The only expanded token of the main file is eof (its range is empty at
\* the eof index) and an included file has a non-empty range before it.
C19_Witness ==
  /\ pc # "collect"
  /\ Files[MainFile].BeginExpanded = Len(ET) - 1
  /\ Files[MainFile].EndExpanded = Len(ET) - 1
  /\ \E f \in DOMAIN Files :
       /\ f # MainFile
       /\ Files[f].BeginExpanded + 1 < Files[f].EndExpanded

\* ---- the keys of the expansion table ----
\* The raw encodings of the locations of the spelled tokens lexed so far.
SpelledKeys ==
  UNION {{getRawEncoding(fileToks[f][j].loc) : j \in 1..Len(fileToks[f])} :
         f \in 1..nfiles}

\* The step delivers to an enabled capturer a MacroExpands event that passes
\* both filter rules and whose range begins at a macro location.
MergeDelivered ==
  /\ ev'.cb = "MacroExpands"
  /\ Collector
  /\ isFileID(ev'.end)
  /\ ~isValid(LastExpansionEnd) \/ isBeforeInTranslationUnit(LastExpansionEnd, ev'.end)
  /\ ~isFileID(ev'.begin)

\* C20: whenever the preprocessor delivers an event that passes both filter
\* rules and whose range begin is not a file location, the table already
\* holds an entry keyed at the expansion location of that begin, and the
\* step only overwrites the end of that entry; every key of the table is
\* the location of a spelled token of a file.
C20_MergeKey ==
  [][/\ MergeDelivered =>
          /\ getRawEncoding(getExpansionLoc(ev'.begin)) \in DOMAIN Expansions
          /\ DOMAIN Expansions' = DOMAIN Expansions
          /\ Expansions'[getRawEncoding(getExpansionLoc(ev'.begin))] = ev'.end
          /\ \A k \in DOMAIN Expansions :
               k # getRawEncoding(getExpansionLoc(ev'.begin))
                 => Expansions'[k] = Expansions[k]
     /\ DOMAIN Expansions' \subseteq SpelledKeys']_vars

\* A merged expansion has just moved the end of the entry of an outer call
\* that stands after another recorded call.
C20_Witness ==
  /\ ev.cb = "MacroExpands"
  /\ ~isFileID(ev.begin)
  /\ Collector
  /\ Cardinality(DOMAIN Expansions) = 2
  /\ Lookup(Expansions, getRawEncoding(getExpansionLoc(ev.begin))) = ev.end
  /\ LastExpansionEnd = ev.end

\* ---- the spelled index of an expanded token ----
\* C21: in a finished buffer, for every expanded token but the final eof
\* the index spelledForExpandedToken computes is a valid index into the
\* SpelledTokens of the file of the token's expansion location, also when
\* the tokens of an included file stand between the tokens of that file.
C21_ValidIndex ==
  Done => \A i \in 0..(Len(ET) - 2) :
            /\ spelledForExpandedToken(i).file = FileOfExpanded(i)
            /\ spelledForExpandedToken(i).idx >= 0
            /\ spelledForExpandedToken(i).idx < Len(SpelledOf(FileOfExpanded(i)))

\* A token of the main file that follows the tokens of an included file and
\* a macro expansion of the main file is answered with a spelled index
\* behind the #include directive.
C21_Witness ==
  /\ Done
  /\ \E i \in 2..(Len(ET) - 2) :
       /\ FileOfExpanded(i) = MainFile
       /\ FileOfExpanded(i - 1) # MainFile
       /\ ~isFileID(At(ET, 0).loc)
       /\ FileOfExpanded(0) = MainFile
       /\ spelledForExpandedToken(i).map = 0
       /\ spelledForExpandedToken(i).idx > incAt[FileOfExpanded(i - 1)] - 1
       /\ PointsAtSpelled(spelledForExpandedToken(i))

\* ---- Mappings and the bounds of their file ----
\* C22: every Mapping M stored for a file F stays inside F's bounds:
\* 0 <= M.BeginSpelled <= M.EndSpelled <= F.SpelledTokens.size() and
\* F.BeginExpanded <= M.BeginExpanded <= M.EndExpanded <= F.EndExpanded;
\* M.EndExpanded <= ExpandedTokens.size() - 1, so the final eof token is in
\* no Mapping and ExpandedTokens[M.EndExpanded] exists.
C22_MappingBounds ==
  pc # "collect" =>
    \A f \in DOMAIN Files : \A k \in 1..Len(MappingsOf(f)) :
      LET M == MappingsOf(f)[k]
      IN  /\ 0 <= M.BeginSpelled
          /\ M.BeginSpelled <= M.EndSpelled
          /\ M.EndSpelled <= Len(SpelledOf(f))
          /\ Files[f].BeginExpanded <= M.BeginExpanded
          /\ M.BeginExpanded <= M.EndExpanded
          /\ M.EndExpanded <= Files[f].EndExpanded
          /\ M.EndExpanded <= Len(ET) - 1
          /\ ~InExpanded(M, Len(ET) - 1)

\* A finished buffer where an included file has a Mapping that begins at the
\* file's BeginExpanded and one that ends at its EndExpanded, which is not
\* the index of the eof token, and the main file has a Mapping positioned at
\* the eof token.
C22_Witness ==
  /\ Done
  /\ \E f \in DOMAIN Files :
       /\ f # MainFile
       /\ Files[f].EndExpanded < Len(ET) - 1
       /\ \E k \in 1..Len(MappingsOf(f)) :
            MappingsOf(f)[k].BeginExpanded = Files[f].BeginExpanded
       /\ \E k \in 1..Len(MappingsOf(f)) :
            /\ MappingsOf(f)[k].EndExpanded = Files[f].EndExpanded
            /\ MappingsOf(f)[k].BeginExpanded < MappingsOf(f)[k].EndExpanded
  /\ \E k \in 1..Len(MappingsOf(MainFile)) :
       MappingsOf(MainFile)[k].EndExpanded = Len(ET) - 1

\* ---- the ends the capturer records ----
AtOrBefore(a, b) == a = b \/ isBeforeInTranslationUnit(a, b)

\* C23: the ends the capturer records only move forward: a recorded event
\* sets LastExpansionEnd to a location strictly after its previous value in
\* the translation unit, every end in the table is at or before
\* LastExpansionEnd, and an overwritten entry never gets an earlier end.
C23_EndsMoveForward ==
  [][ev'.cb = "MacroExpands" =>
       /\ LastExpansionEnd' # LastExpansionEnd =>
            /\ LastExpansionEnd' = ev'.end
            /\ isValid(LastExpansionEnd)
                 => isBeforeInTranslationUnit(LastExpansionEnd, LastExpansionEnd')
       /\ \A k \in DOMAIN Expansions' : AtOrBefore(Expansions'[k], LastExpansionEnd')
       /\ \A k \in DOMAIN Expansions :
            /\ k \in DOMAIN Expansions'
            /\ AtOrBefore(Expansions[k], Expansions'[k])
       /\ Expansions' # Expansions => LastExpansionEnd' # LastExpansionEnd]_vars

\* The capturer has just overwritten the end of an entry while the table
\* holds another entry, and the end it recorded lies in an included file.
C23_Witness ==
  /\ ev.cb = "MacroExpands"
  /\ Collector
  /\ ~isFileID(ev.begin)
  /\ LastExpansionEnd = ev.end
  /\ ev.end.file # MainFile
  /\ Cardinality(DOMAIN Expansions) = 2
  /\ \E k \in DOMAIN Expansions : Expansions[k] # LastExpansionEnd

\* ---- the spelled cursors ----
\* The Mappings of file f whose spelled range contains spelled index j.
MappedBy(f, j) == {k \in 1..Len(MappingsOf(f)) : InSpelled(MappingsOf(f)[k], j)}
\* The expanded tokens, the final eof aside, at the location of spelled
\* token j of file f.
MatchedBy(f, j) ==
  {i \in 0..(Len(ET) - 2) : At(ET, i).loc = At(SpelledOf(f), j).loc}

\* C24: during build() no cursor NextSpelled[F] decreases or exceeds the
\* size of F's SpelledTokens; when build() returns every cursor is at the
\* size and every spelled token is accounted for exactly once: it is in the
\* spelled range of exactly one Mapping of its file, or it has exactly one
\* expanded token at its location, which is outside every Mapping, never
\* both and never neither.
C24_Cursors ==
  [][pc' # "collect" =>
       /\ \A f \in DOMAIN NextSpelled' :
            /\ f \in DOMAIN NextSpelled => NextSpelled[f] <= NextSpelled'[f]
            /\ NextSpelled'[f] <= Len(Result'.Files[f].SpelledTokens)
       /\ Done' =>
            \A f \in DOMAIN Files' :
              /\ NextSpelled'[f] = Len(SpelledOf(f)')
              /\ \A j \in 0..(Len(SpelledOf(f)') - 1) :
                   \/ /\ Cardinality(MappedBy(f, j)') = 1
                      /\ MatchedBy(f, j)' = {}
                   \/ /\ MappedBy(f, j)' = {}
                      /\ Cardinality(MatchedBy(f, j)') = 1
                      /\ \A i \in MatchedBy(f, j)' : CoverOf(i)' = {}]_vars

\* A finished buffer whose main file has a token matched in a file-token
\* run, then a macro call of two tokens with expanded tokens, then a
\* skipped token that the drain put into a Mapping.
C24_Witness ==
  /\ Done
  /\ Len(SpelledOf(MainFile)) = 4
  /\ NextSpelled[MainFile] = 4
  /\ MappedBy(MainFile, 0) = {} /\ Cardinality(MatchedBy(MainFile, 0)) = 1
  /\ MappingsOf(MainFile) = <<NewMapping(1, 3, 1, 2), NewMapping(3, 4, 2, 2)>>
====
